---- MODULE Spec2Model ----
(***************************************************************************)
(* The overlay lifecycle of ion-modal (core/src/components/modal/modal.tsx)*)
(* for one Modal instance.                                                 *)
(*                                                                         *)
(* Modal.present and Modal.dismiss are async methods: each runs to the     *)
(* next `await` in one step of the single-threaded event loop, so every    *)
(* call is a small process whose position is kept in calls[i].pc and whose *)
(* continuations interleave with those of the other calls.                 *)
(*                                                                         *)
(* modal.tsx delegates the transition itself to present()/dismiss() of     *)
(* utils/overlays, the futures to eventMethod() of utils/overlays, the     *)
(* mounting to attachComponent()/detachComponent() of                      *)
(* utils/framework-delegate and the scrim to ion-backdrop.  Those files    *)
(* are modelled from the specification (sections 4.1, 4.3, 4.4, 4.5); the  *)
(* definitions concerned say so.                                           *)
(***************************************************************************)
EXTENDS Integers, Sequences, FiniteSets

\* ------------------------------------------------------------------ bounds
\* calls of present(), dismiss(), onDidDismiss(), onWillDismiss(), ionDismiss
\* events and backdrop taps, in total
MaxCalls == 3
\* the same, in the runs that vary mode, the animation overrides and animated
MaxAnimCalls == 2
\* the same, in the runs checked under fairness
MaxLiveCalls == 2

\* ------------------------------------------------------------- vocabulary
None == 0                      \* `undefined` reference (usersElement)
Undefined == "undefined"       \* `undefined` argument
Data == {Undefined, "foo"}     \* values of dismiss's `data`
Roles == {"custom"}            \* caller-supplied values of dismiss's `role`
NoDetail == <<>>               \* emit() without a payload
Modes == {"ios", "md"}         \* values of @Prop mode, modal.tsx:35-39

\* BACKDROP of utils/overlays: the reserved role of a scrim tap (spec 4.1)
BACKDROP == "backdrop"

\* LIFECYCLE_MAP, modal.tsx:229-234
LIFECYCLE_MAP ==
  [ ionModalDidPresent  |-> "ionViewDidEnter",
    ionModalWillPresent |-> "ionViewWillEnter",
    ionModalWillDismiss |-> "ionViewWillDismiss",
    ionModalDidDismiss  |-> "ionViewDidDismiss" ]

\* EventName with the names of willPresent and didPresent exchanged
EventNameSwapped(emitter) ==
  CASE emitter = "didPresent"  -> "ionModalWillPresent"
    [] emitter = "willPresent" -> "ionModalDidPresent"
    [] emitter = "willDismiss" -> "ionModalWillDismiss"
    [] emitter = "didDismiss"  -> "ionModalDidDismiss"

\* The event each emitter of the component raises, modal.tsx:100-115
EventName(emitter) ==
  CASE emitter = "didPresent"  -> "ionModalDidPresent"
    [] emitter = "willPresent" -> "ionModalWillPresent"
    [] emitter = "willDismiss" -> "ionModalWillDismiss"
    [] emitter = "didDismiss"  -> "ionModalDidDismiss"

VARIABLES
  presented,       \* Modal.presented, modal.tsx:26
  usersElement,    \* Modal.usersElement, modal.tsx:23 (None or a handle)
  state,           \* lifecycle state kept by utils/overlays (spec 4.1)
  hasContainer,    \* el.querySelector('.modal-wrapper') finds the wrapper
  component,       \* @Prop component: TRUE iff the descriptor is resolvable
  backdropDismiss, \* @Prop backdropDismiss
  mounted,         \* handles attached into the container and not detached
  handles,         \* number of handles ever attached (handles are 1..handles)
  calls,           \* the calls made so far, in call order, with their position
  events,          \* lifecycle events emitted on the host element, in order
  forwarded,       \* content-facing events dispatched by lifecycle(), in order
  detaches,        \* detachComponent invocations, in order
  futures,         \* futures returned by onDidDismiss()/onWillDismiss()
  taps,            \* backdrop taps on a scrim that was not tappable: the
                   \* lifecycle state at each of them
  mode,            \* @Prop mode, modal.tsx:39
  enterAnimation,  \* @Prop enterAnimation, modal.tsx:49 (undefined or a builder)
  leaveAnimation,  \* @Prop leaveAnimation, modal.tsx:54 (undefined or a builder)
  animated,        \* @Prop animated, modal.tsx:85
  animations,      \* the animations started, in order
  maxCalls         \* how many calls the application makes in this run

vars == << presented, usersElement, state, hasContainer, component,
           backdropDismiss, mounted, handles, calls, events, forwarded,
           detaches, futures, taps, mode, enterAnimation, leaveAnimation,
           animated, animations, maxCalls >>

props == << component, backdropDismiss, mode, enterAnimation, leaveAnimation,
            animated, maxCalls >>

\* ------------------------------------------------------------ event bridge
\* Modal.lifecycle, modal.tsx:142-153: forward the event to usersElement
\* under its mapped name, with the same detail.
Forwardable(el, type) == el # None /\ type \in DOMAIN LIFECYCLE_MAP

lifecycle(fwd, type, detail) ==
  LET el == usersElement IN
  IF Forwardable(el, type)
  THEN Append(fwd, [ name   |-> LIFECYCLE_MAP[type],
                     detail |-> detail,
                     target |-> el,
                     live   |-> el \in mounted ])
  ELSE fwd

\* eventMethod of utils/overlays (spec 4.1): a pending future for `type`
\* resolves with the detail of the next event of that type.
Resolve(fs, type, detail) ==
  [ k \in DOMAIN fs |->
      IF fs[k].ev = type /\ ~fs[k].resolved
      THEN [ fs[k] EXCEPT !.resolved = TRUE, !.value = detail ]
      ELSE fs[k] ]

\* emitter.emit(detail) of one of the four lifecycle emitters
\* (modal.tsx:100-115) with its synchronous listeners: Modal.lifecycle
\* (modal.tsx:138-142) and the futures' listeners.  Each event is logged with
\* the call that raised it, the content mounted at that moment and the
\* number of content-facing events lifecycle() dispatched for it.
Emitted(log, emitter, detail, by) ==
  LET type == EventName(emitter)
      fwd  == lifecycle(log.forwarded, type, detail)
  IN [ events |-> Append(log.events,
                         [ type |-> type, detail |-> detail, by |-> by,
                           mounted |-> mounted,
                           fwd |-> Len(fwd) - Len(log.forwarded) ]),
       forwarded |-> fwd,
       futures |-> Resolve(log.futures, type, detail) ]

Log == [ events |-> events, forwarded |-> forwarded, futures |-> futures ]

SetLog(log) ==
  /\ events' = log.events
  /\ forwarded' = log.forwarded
  /\ futures' = log.futures

Emit(emitter, detail, by) == SetLog(Emitted(Log, emitter, detail, by))

\* two emits in one step: first, then second
EmitBoth(first, second, detail, by) ==
  SetLog(Emitted(Emitted(Log, first, detail, by), second, detail, by))

NoEmit == UNCHANGED << events, forwarded, futures >>

\* ------------------------------------------------------------------- calls
Budget == Len(calls) + Len(futures) + Len(taps)

PresentInFlight ==
  \E j \in DOMAIN calls :
    calls[j].kind = "present" /\ calls[j].pc \in {"attach", "ready", "anim"}

PendingFutures == { k \in DOMAIN futures : ~futures[k].resolved }

DismissReturnedTrue ==
  \E j \in DOMAIN calls : calls[j].kind = "dismiss" /\ calls[j].result = "true"

NewCall(kind, via, pc, result, data, role) ==
  [ kind |-> kind, via |-> via, pc |-> pc, result |-> result,
    data |-> data, role |-> role,
    entryState |-> state,             \* lifecycle state when the call was made
    entryPresented |-> presented,     \* this.presented when the call was made
    container |-> kind = "present" /\ hasContainer,
                                      \* `container`, modal.tsx:163
    comp |-> kind = "present" /\ component,
                                      \* the descriptor handed to attach
    attachCalled |-> pc = "attach",   \* attachComponent was called
    attached |-> None,                \* the handle this call attached
    detail |-> NoDetail,              \* the payload handed to utils/overlays
    dismissed |-> "pending",          \* what utils/overlays dismiss() resolved to
    afterDismiss |-> DismissReturnedTrue,
    presentInFlight |-> kind = "dismiss" /\ PresentInFlight,
                                      \* a present() was suspended at the call
    futs |-> PendingFutures ]

SetCall(i, r) == calls' = [ calls EXCEPT ![i] = r ]

InitCore ==
  /\ presented = FALSE
  /\ usersElement = None
  /\ state = "Idle"
  /\ hasContainer \in BOOLEAN
  /\ component \in BOOLEAN
  /\ backdropDismiss \in BOOLEAN
  /\ mounted = {}
  /\ handles = 0
  /\ calls = << >>
  /\ events = << >>
  /\ forwarded = << >>
  /\ detaches = << >>
  /\ futures = << >>
  /\ taps = << >>
  /\ animations = << >>

\* mode only selects the animation; the runs of Spec keep it and the
\* animation overrides at one value, those of SpecAnim vary them.
Init ==
  /\ InitCore
  /\ mode = "ios"
  /\ enterAnimation = Undefined
  /\ leaveAnimation = Undefined
  /\ animated \in BOOLEAN
  /\ maxCalls = MaxCalls

InitAnim ==
  /\ InitCore
  /\ mode \in Modes
  /\ enterAnimation \in {Undefined, "customEnter"}
  /\ leaveAnimation \in {Undefined, "customLeave"}
  /\ animated \in BOOLEAN
  /\ maxCalls = MaxAnimCalls

InitLive ==
  /\ InitCore
  /\ mode = "ios"
  /\ enterAnimation = Undefined
  /\ leaveAnimation = Undefined
  /\ animated \in BOOLEAN
  /\ maxCalls = MaxLiveCalls

\* ----------------------------------------------------------- Modal.present
\* ContainerMissing without the check: present() goes on without a container
ContainerNeverMissing(container) == FALSE

\* modal.tsx:163-166: the container lookup and its check
ContainerMissing(container) == ~container

\* attachComponent of utils/framework-delegate (spec 4.3): fails with
\* AttachError iff the descriptor cannot be resolved.
AttachSucceeds(comp) == comp

\* PresentAllowed without the guard
PresentAlwaysAllowed == TRUE

\* present() of utils/overlays (spec 4.1): a no-op unless the state is Idle
PresentAllowed == state = "Idle"

\* modal.tsx:159-171, up to the first await: the `presented` guard, the
\* container check, and the call of attachComponent.
PresentCall ==
  /\ Budget < maxCalls
  /\ calls' = Append(calls,
       IF presented
       THEN NewCall("present", "caller", "done", "void", Undefined, Undefined)
       ELSE IF ContainerMissing(hasContainer)
       THEN NewCall("present", "caller", "done", "MountError", Undefined, Undefined)
       ELSE NewCall("present", "caller", "attach", "none", Undefined, Undefined))
  /\ UNCHANGED << presented, usersElement, state, hasContainer, props, mounted,
                  handles, events, forwarded, detaches, futures, taps, animations >>

\* modal.tsx:171-172: attachComponent settles. On success the new handle is
\* assigned to usersElement and deepReady is awaited; on failure the
\* rejection leaves present() before the assignment.
PresentAttached(i) ==
  /\ calls[i].kind = "present" /\ calls[i].pc = "attach"
  /\ IF AttachSucceeds(calls[i].comp)
     THEN /\ handles' = handles + 1
          /\ mounted' = mounted \cup {handles + 1}
          /\ usersElement' = handles + 1
          /\ SetCall(i, [ calls[i] EXCEPT !.pc = "ready", !.attached = handles + 1 ])
     ELSE /\ SetCall(i, [ calls[i] EXCEPT !.pc = "done", !.result = "AttachError" ])
          /\ UNCHANGED << handles, mounted, usersElement >>
  /\ NoEmit
  /\ UNCHANGED << presented, state, hasContainer, props, detaches, taps, animations >>

\* EnterBuilders with the two builders exchanged
EnterBuildersSwapped == << "mdEnter", "iosEnter" >>

\* modal.tsx:173: the builders handed to present() of utils/overlays, and
\* modal.tsx:181: those handed to dismiss(); the ios one first
EnterBuilders == << "iosEnter", "mdEnter" >>
LeaveBuilders == << "iosLeave", "mdLeave" >>

\* AnimationSelector of utils/overlays (spec 4.2): the override when there
\* is one, otherwise the builder of the mode
Select(override, m, builders) ==
  IF override # Undefined THEN override
  ELSE IF m = "ios" THEN builders[1] ELSE builders[2]

\* present() of utils/overlays (spec 4.1, 4.2), up to its animation: a no-op
\* unless the state is Idle; WillPresent is emitted and the enter animation
\* started; with animated false there is no animation and the transition
\* completes at once.
PresentHelper(i) ==
  IF PresentAllowed
  THEN IF animated
       THEN /\ state' = "Presenting"
            /\ Emit("willPresent", NoDetail, i)
            /\ animations' = Append(animations,
                 [ by |-> i, at |-> Len(events) + 1,
                   builder |-> Select(enterAnimation, mode, EnterBuilders) ])
            /\ SetCall(i, [ calls[i] EXCEPT !.pc = "anim" ])
            /\ UNCHANGED presented
       ELSE /\ state' = "Presented"
            /\ presented' = TRUE
            /\ EmitBoth("willPresent", "didPresent", NoDetail, i)
            /\ SetCall(i, [ calls[i] EXCEPT !.pc = "done", !.result = "void" ])
            /\ UNCHANGED animations
  ELSE /\ SetCall(i, [ calls[i] EXCEPT !.pc = "done", !.result = "void" ])
       /\ NoEmit
       /\ UNCHANGED << state, presented, animations >>

\* PresentReady without the awaits of modal.tsx:171-172: present() of
\* utils/overlays is called while attachComponent is still pending
PresentReadyEarly(i) ==
  /\ calls[i].kind = "present" /\ calls[i].pc \in {"attach", "ready"}
  /\ PresentHelper(i)
  /\ UNCHANGED << usersElement, hasContainer, props, mounted, handles,
                  detaches, taps >>

\* modal.tsx:172-173: deepReady resolves (spec 4.4: it never fails) and
\* present() of utils/overlays is called.
PresentReady(i) ==
  /\ calls[i].kind = "present" /\ calls[i].pc = "ready"
  /\ PresentHelper(i)
  /\ UNCHANGED << usersElement, hasContainer, props, mounted, handles,
                  detaches, taps >>

\* present() of utils/overlays (spec 4.1): the enter animation completes,
\* presented becomes true and DidPresent is emitted; modal.tsx:173 returns.
PresentAnimated(i) ==
  /\ calls[i].kind = "present" /\ calls[i].pc = "anim"
  /\ presented' = TRUE
  /\ state' = IF state = "Presenting" THEN "Presented" ELSE state
  /\ Emit("didPresent", NoDetail, i)
  /\ SetCall(i, [ calls[i] EXCEPT !.pc = "done", !.result = "void" ])
  /\ UNCHANGED << usersElement, hasContainer, props, mounted, handles,
                  detaches, taps, animations >>

\* ----------------------------------------------------------- Modal.dismiss
\* HelperArgs with the data dropped
HelperArgsNoData(data, role) == << Undefined, role >>

\* modal.tsx:181: the data and role handed to dismiss() of utils/overlays
HelperArgs(data, role) == << data, role >>

\* dismiss() of utils/overlays (spec 4.1): returns false unless the state is
\* Presented or Presenting
DismissAllowed == state \in {"Presented", "Presenting"}

\* ShouldDetach without the test of `dismissed`
ShouldDetachAlways(dismissed) == TRUE

\* ShouldDetach with the test inverted
ShouldDetachInverted(dismissed) == ~dismissed

\* modal.tsx:182: detach only when utils/overlays reported a dismissal
ShouldDetach(dismissed) == dismissed

\* modal.tsx:180-181, up to the await: dismiss() of utils/overlays (spec
\* 4.1, 4.2) either rejects the call or emits WillDismiss and starts the leave
\* animation; with animated false there is no animation and the transition
\* completes at once.
StartDismiss(data, role, via) ==
  /\ Budget < maxCalls
  /\ LET i == Len(calls) + 1
         d == HelperArgs(data, role)
         c == NewCall("dismiss", via, "anim", "none", data, role)
     IN IF DismissAllowed
        THEN IF animated
             THEN /\ state' = "Dismissing"
                  /\ Emit("willDismiss", d, i)
                  /\ animations' = Append(animations,
                       [ by |-> i, at |-> Len(events) + 1,
                         builder |-> Select(leaveAnimation, mode, LeaveBuilders) ])
                  /\ calls' = Append(calls, [ c EXCEPT !.detail = d ])
                  /\ UNCHANGED presented
             ELSE /\ state' = "Dismissed"
                  /\ presented' = FALSE
                  /\ EmitBoth("willDismiss", "didDismiss", d, i)
                  /\ calls' = Append(calls, [ c EXCEPT !.pc = "resume", !.detail = d,
                                                       !.dismissed = "true" ])
                  /\ UNCHANGED animations
        ELSE /\ calls' = Append(calls, [ c EXCEPT !.pc = "resume", !.detail = d,
                                                  !.dismissed = "false" ])
             /\ NoEmit
             /\ UNCHANGED << state, presented, animations >>
  /\ UNCHANGED << usersElement, hasContainer, props, mounted, handles,
                  detaches, taps >>

\* Modal.dismiss called by the application, modal.tsx:179-181
Dismiss == \E data \in Data, role \in Roles : StartDismiss(data, role, "caller")

\* Modal.onDismiss, modal.tsx:125-131: an ionDismiss event calls dismiss()
OnDismiss == StartDismiss(Undefined, Undefined, "ionDismiss")

\* dismiss() of utils/overlays (spec 4.1): the leave animation completes,
\* DidDismiss is emitted, presented becomes false, the call resolves to true.
DismissAnimated(i) ==
  /\ calls[i].kind = "dismiss" /\ calls[i].pc = "anim"
  /\ Emit("didDismiss", calls[i].detail, i)
  /\ presented' = FALSE
  /\ state' = "Dismissed"
  /\ SetCall(i, [ calls[i] EXCEPT !.pc = "resume", !.dismissed = "true" ])
  /\ UNCHANGED << usersElement, hasContainer, props, mounted, handles,
                  detaches, taps, animations >>

\* modal.tsx:181-185: the await resumes; when dismissed, detachComponent is
\* called on usersElement (spec 4.3: releasing a released handle is a no-op),
\* otherwise false is returned.
DismissResume(i) ==
  /\ calls[i].kind = "dismiss" /\ calls[i].pc = "resume"
  /\ IF ShouldDetach(calls[i].dismissed = "true")
     THEN /\ detaches' = Append(detaches, [ by |-> i, el |-> usersElement ])
          /\ mounted' = mounted \ {usersElement}
          /\ SetCall(i, [ calls[i] EXCEPT !.pc = "detach" ])
     ELSE /\ SetCall(i, [ calls[i] EXCEPT !.pc = "done", !.result = "false" ])
          /\ UNCHANGED << detaches, mounted >>
  /\ NoEmit
  /\ UNCHANGED << presented, usersElement, state, hasContainer, props,
                  handles, taps, animations >>

\* modal.tsx:183-185: detachComponent resolves and `dismissed` is returned
DismissDetached(i) ==
  /\ calls[i].kind = "dismiss" /\ calls[i].pc = "detach"
  /\ SetCall(i, [ calls[i] EXCEPT !.pc = "done", !.result = calls[i].dismissed ])
  /\ NoEmit
  /\ UNCHANGED << presented, usersElement, state, hasContainer, props, mounted,
                  handles, detaches, taps, animations >>

\* ---------------------------------------------------------------- backdrop
\* Tappable whatever backdropDismiss says
TappableAlways == TRUE

\* Modal.render, modal.tsx:223: <ion-backdrop tappable={this.backdropDismiss}>
Tappable == backdropDismiss

\* BackdropTapArgs without the role, as in Modal.onDismiss
BackdropTapArgsNoRole == << Undefined, Undefined >>

\* modal.tsx:135: the arguments of the dismiss a tap makes
BackdropTapArgs == << Undefined, BACKDROP >>

\* A tap on the scrim.  ion-backdrop (spec 4.5) raises ionBackdropTap only
\* when tappable; Modal.onBackdropTap (modal.tsx:133-136) then dismisses.
BackdropTap ==
  IF Tappable
  THEN /\ StartDismiss(BackdropTapArgs[1], BackdropTapArgs[2], "tap")
  ELSE /\ Budget < maxCalls
       /\ taps' = Append(taps, state)
       /\ UNCHANGED << presented, usersElement, state, hasContainer, props,
                       mounted, handles, calls, events, forwarded, detaches,
                       futures, animations >>

\* ----------------------------------------------------------------- futures
\* modal.tsx:194 and modal.tsx:203: the event each future waits for
DidDismissEvent == "ionModalDidDismiss"
WillDismissEvent == "ionModalWillDismiss"

NewFuture(api, ev) ==
  /\ Budget < maxCalls
  /\ futures' = Append(futures, [ api |-> api, ev |-> ev, resolved |-> FALSE,
                                  value |-> NoDetail ])
  /\ UNCHANGED << presented, usersElement, state, hasContainer, props, mounted,
                  handles, calls, events, forwarded, detaches, taps, animations >>

\* Modal.onDidDismiss, modal.tsx:192-195
OnDidDismiss == NewFuture("onDidDismiss", DidDismissEvent)

\* Modal.onWillDismiss, modal.tsx:201-204
OnWillDismiss == NewFuture("onWillDismiss", WillDismissEvent)

\* ------------------------------------------------------------- environment
\* Modal.render, modal.tsx:219-226: the first render creates .modal-wrapper
Render ==
  /\ ~hasContainer
  /\ hasContainer' = TRUE
  /\ UNCHANGED << presented, usersElement, state, props, mounted, handles,
                  calls, events, forwarded, detaches, futures, taps, animations >>

\* @Prop component, modal.tsx:59: the application replaces an unresolvable
\* descriptor by a resolvable one
SetComponent ==
  /\ ~component
  /\ component' = TRUE
  /\ UNCHANGED << presented, usersElement, state, hasContainer, backdropDismiss,
                  mode, enterAnimation, leaveAnimation, animated, maxCalls,
                  mounted, handles, calls, events, forwarded, detaches,
                  futures, taps, animations >>

Next ==
  \/ PresentCall
  \/ \E i \in DOMAIN calls : PresentAttached(i)
  \/ \E i \in DOMAIN calls : PresentReady(i)
  \/ \E i \in DOMAIN calls : PresentAnimated(i)
  \/ Dismiss
  \/ OnDismiss
  \/ BackdropTap
  \/ \E i \in DOMAIN calls : DismissAnimated(i)
  \/ \E i \in DOMAIN calls : DismissResume(i)
  \/ \E i \in DOMAIN calls : DismissDetached(i)
  \/ OnDidDismiss
  \/ OnWillDismiss
  \/ Render
  \/ SetComponent

Spec == Init /\ [][Next]_vars

\* the runs that vary mode, the animation overrides and animated
SpecAnim == InitAnim /\ [][Next]_vars

\* A continuation of a suspended call: attachComponent, deepReady, an
\* animation or detachComponent settles and the call resumes.
Continue ==
  \E i \in DOMAIN calls :
    \/ PresentAttached(i)
    \/ PresentReady(i)
    \/ PresentAnimated(i)
    \/ DismissAnimated(i)
    \/ DismissResume(i)
    \/ DismissDetached(i)

\* The event loop runs every continuation that is ready, and attach,
\* readiness and animations settle (spec 4.4, 7); the application is not
\* obliged to make any call.
SpecLive == InitLive /\ [][Next]_vars /\ WF_vars(Continue)

\* ================================================================== claims
PresentCalls == { i \in DOMAIN calls : calls[i].kind = "present" }
DismissCalls == { i \in DOMAIN calls : calls[i].kind = "dismiss" }

Count(type) == Cardinality({ k \in DOMAIN events : events[k].type = type })

\* the positions of the events of `type` that call i raised
EventsBy(i, type) ==
  { k \in DOMAIN events : events[k].by = i /\ events[k].type = type }

AnyEventBy(i) == \E k \in DOMAIN events : events[k].by = i

DetachBy(i) == \E k \in DOMAIN detaches : detaches[k].by = i

\* C1: when present() has been called at least twice and dismiss() not at
\* all, at most one WillPresent and at most one DidPresent have been emitted,
\* and once all the present() calls have returned and one of them returned
\* normally exactly one of each has been emitted.
C1_PresentTwiceOnce ==
  (Cardinality(PresentCalls) >= 2 /\ DismissCalls = {}) =>
    /\ Count("ionModalWillPresent") <= 1
    /\ Count("ionModalDidPresent") <= 1
    /\ ( /\ \A i \in PresentCalls : calls[i].pc = "done"
         /\ \E i \in PresentCalls : calls[i].result = "void" )
       => /\ Count("ionModalWillPresent") = 1
          /\ Count("ionModalDidPresent") = 1

\* Two present() calls have returned, the second made while the first was
\* suspended (both passed the `presented` guard and attached content), and
\* one pair of events was emitted.
C1_Witness ==
  \E i, j \in PresentCalls :
    /\ i < j
    /\ calls[i].pc = "done" /\ calls[j].pc = "done"
    /\ calls[i].result = "void" /\ calls[j].result = "void"
    /\ calls[i].attached # None /\ calls[j].attached # None
    /\ DismissCalls = {}
    /\ Count("ionModalWillPresent") = 1
    /\ Count("ionModalDidPresent") = 1

\* C2: a dismiss() made in lifecycle state Idle or Dismissed resolves to
\* false, emits no lifecycle event and calls no detach.
C2_DismissIdleOrDismissed ==
  \A i \in DismissCalls :
    calls[i].entryState \in {"Idle", "Dismissed"} =>
      /\ calls[i].dismissed = "false"
      /\ calls[i].result \in {"none", "false"}
      /\ calls[i].pc = "done" => calls[i].result = "false"
      /\ ~AnyEventBy(i)
      /\ ~DetachBy(i)

\* A dismiss() made after the instance was dismissed, while content was
\* referenced by usersElement, has returned false.
C2_Witness ==
  \E i \in DismissCalls :
    /\ calls[i].entryState = "Dismissed"
    /\ calls[i].pc = "done" /\ calls[i].result = "false"
    /\ usersElement # None

\* C3: in the sequence of emitted events every DidPresent has a WillPresent
\* before it, every DidDismiss has before it a WillDismiss with no
\* DidDismiss between the two, and every WillDismiss and DidDismiss has a
\* WillPresent before it.
C3_EventOrder ==
  \A k \in DOMAIN events :
    /\ events[k].type = "ionModalDidPresent" =>
         \E j \in 1..(k - 1) : events[j].type = "ionModalWillPresent"
    /\ events[k].type = "ionModalDidDismiss" =>
         \E j \in 1..(k - 1) :
           /\ events[j].type = "ionModalWillDismiss"
           /\ \A m \in (j + 1)..(k - 1) : events[m].type # "ionModalDidDismiss"
    /\ events[k].type \in {"ionModalWillDismiss", "ionModalDidDismiss"} =>
         \E j \in 1..(k - 1) : events[j].type = "ionModalWillPresent"

\* All four events have been emitted.
C3_Witness ==
  /\ Count("ionModalWillPresent") = 1 /\ Count("ionModalDidPresent") = 1
  /\ Count("ionModalWillDismiss") = 1 /\ Count("ionModalDidDismiss") = 1

\* C4 (the claim as stated): a present() made after a dismiss() has returned
\* true attaches no content and emits no lifecycle event (so it does not set
\* presented either, which only the step emitting DidPresent does).
C4_DismissedIsTerminal ==
  \A i \in PresentCalls :
    calls[i].afterDismiss => calls[i].attached = None /\ ~AnyEventBy(i)

FailedPresent(i) ==
  calls[i].kind = "present" /\ calls[i].result \in {"MountError", "AttachError"}

\* the present() call that fails in this step, if any
FailsNow(i) ==
  /\ i \in DOMAIN calls'
  /\ calls'[i].kind = "present"
  /\ calls'[i].result \in {"MountError", "AttachError"}
  /\ (i \in DOMAIN calls => calls[i].result = "none")

\* C5: a present() made without a container fails with MountError without
\* calling attach; a present() whose attach fails returns AttachError; a
\* failed present() has emitted no lifecycle event and attached no handle;
\* while every call made so far is a failed present() the instance is Idle,
\* not presented and without content; and the step in which a present()
\* fails changes neither presented, the lifecycle state, usersElement, the
\* mounted content nor the emitted and forwarded events.
C5_FailedPresentLeavesIdle ==
  /\ [] /\ \A i \in PresentCalls :
             /\ (~calls[i].entryPresented /\ ~calls[i].container) =>
                  calls[i].result = "MountError" /\ ~calls[i].attachCalled
             /\ calls[i].result = "MountError" => ~calls[i].attachCalled
             /\ (calls[i].attachCalled /\ ~calls[i].comp /\ calls[i].pc = "done") =>
                  calls[i].result = "AttachError"
             /\ FailedPresent(i) => ~AnyEventBy(i) /\ calls[i].attached = None
        /\ (calls # << >> /\ \A i \in DOMAIN calls : FailedPresent(i)) =>
             /\ state = "Idle" /\ ~presented
             /\ usersElement = None /\ mounted = {}
             /\ events = << >>
  /\ [][ (\E i \in DOMAIN calls' : FailsNow(i)) =>
           UNCHANGED << presented, state, usersElement, mounted, handles,
                        events, forwarded, detaches >> ]_vars

\* A present() failed with MountError, a later one with AttachError, and a
\* third one, made after both, was accepted and presented the instance.
C5_Witness ==
  \E i, j, k \in PresentCalls :
    /\ i < j /\ j < k
    /\ calls[i].result = "MountError"
    /\ calls[j].result = "AttachError"
    /\ calls[k].pc = "done" /\ calls[k].attached # None
    /\ presented /\ state = "Presented"

\* the payload a dismiss() call was given
Payload(i) == << calls[i].data, calls[i].role >>

\* C6: for a dismiss(data, role) made in state Presented, WillDismiss has
\* been emitted with {data, role}; once its leave animation has completed,
\* DidDismiss has been emitted after it with {data, role}; a future obtained
\* from onWillDismiss() before the call and still pending at the call is
\* resolved with {data, role}, and one obtained from onDidDismiss() is
\* resolved with {data, role} once DidDismiss has been emitted and pending
\* until then.
C6_DismissPayload ==
  \A i \in DismissCalls :
    calls[i].entryState = "Presented" =>
      /\ \E k \in EventsBy(i, "ionModalWillDismiss") :
           /\ events[k].detail = Payload(i)
           /\ calls[i].dismissed = "true" =>
                \E m \in EventsBy(i, "ionModalDidDismiss") :
                  m > k /\ events[m].detail = Payload(i)
      /\ calls[i].dismissed # "true" => EventsBy(i, "ionModalDidDismiss") = {}
      /\ \A f \in calls[i].futs :
           /\ futures[f].api = "onWillDismiss" =>
                futures[f].resolved /\ futures[f].value = Payload(i)
           /\ futures[f].api = "onDidDismiss" =>
                IF calls[i].dismissed = "true"
                THEN futures[f].resolved /\ futures[f].value = Payload(i)
                ELSE ~futures[f].resolved

\* dismiss("foo", "custom") on a presented instance has returned true and a
\* future obtained from onDidDismiss() before it resolved with that payload.
C6_Witness ==
  \E i \in DismissCalls :
    /\ calls[i].entryState = "Presented"
    /\ Payload(i) = << "foo", "custom" >>
    /\ calls[i].pc = "done" /\ calls[i].result = "true"
    /\ \E f \in calls[i].futs :
         /\ futures[f].api = "onDidDismiss"
         /\ futures[f].resolved /\ futures[f].value = << "foo", "custom" >>

\* the dismiss() call that returns in this step, if any
Returns(i, result) ==
  /\ i \in DismissCalls
  /\ calls[i].pc # "done"
  /\ calls'[i].pc = "done" /\ calls'[i].result = result

\* C7 (the claim as stated): in the step in which a dismiss() returns true,
\* that call has emitted DidDismiss, presented is false and every handle a
\* present() attached has been detached; a dismiss() that returns false has
\* called no detach.
C7_TrueOnlyWhenFullyDismissed ==
  [][ \A i \in DOMAIN calls :
        /\ Returns(i, "true") =>
             /\ EventsBy(i, "ionModalDidDismiss")' # {}
             /\ ~presented'
             /\ mounted' = {}
        /\ Returns(i, "false") => ~DetachBy(i)' ]_vars

\* C8: no dismiss() is ever made by a backdrop tap while backdropDismiss is
\* false, and a tap on such a backdrop changes neither presented, the
\* lifecycle state, the calls, the emitted and forwarded events nor the
\* mounted content.
C8_BackdropTapIgnored ==
  /\ [](~backdropDismiss => \A i \in DOMAIN calls : calls[i].via # "tap")
  /\ [][ (~backdropDismiss /\ taps' # taps) =>
           UNCHANGED << presented, state, usersElement, mounted, calls, events,
                        forwarded, detaches, futures >> ]_vars

\* The backdrop of a presented instance with backdropDismiss false was
\* tapped; the instance is still presented, its content mounted, and no
\* dismiss event was emitted.
C8_Witness ==
  /\ ~backdropDismiss
  /\ \E k \in DOMAIN taps : taps[k] = "Presented"
  /\ presented /\ state = "Presented" /\ usersElement \in mounted
  /\ Count("ionModalWillDismiss") = 0 /\ Count("ionModalDidDismiss") = 0

\* C9: every dismiss() a backdrop tap makes is given data undefined and role
\* "backdrop" and passes the guard of dismiss(): made in state Presented it
\* emits WillDismiss, and on completion DidDismiss, with that payload; made
\* in state Idle or Dismissed (not presented) or Dismissing (dismissal
\* started) it emits nothing, detaches nothing and returns false.
C9_BackdropTapGuarded ==
  \A i \in DismissCalls :
    calls[i].via = "tap" =>
      /\ calls[i].detail = << "undefined", "backdrop" >>
      /\ calls[i].entryState = "Presented" =>
           /\ \E k \in EventsBy(i, "ionModalWillDismiss") :
                events[k].detail = << "undefined", "backdrop" >>
           /\ calls[i].dismissed = "true" =>
                \E k \in EventsBy(i, "ionModalDidDismiss") :
                  events[k].detail = << "undefined", "backdrop" >>
      /\ calls[i].entryState \in {"Idle", "Dismissing", "Dismissed"} =>
           /\ ~AnyEventBy(i)
           /\ ~DetachBy(i)
           /\ calls[i].dismissed = "false"
           /\ calls[i].pc = "done" => calls[i].result = "false"

\* A tap dismissed a presented instance and returned true; a second tap,
\* made during the first one's leave animation, returned false.
C9_Witness ==
  \E i, j \in DismissCalls :
    /\ calls[i].via = "tap" /\ calls[j].via = "tap"
    /\ calls[i].entryState = "Presented"
    /\ calls[i].pc = "done" /\ calls[i].result = "true"
    /\ calls[j].entryState = "Dismissing"
    /\ calls[j].pc = "done" /\ calls[j].result = "false"
    /\ Count("ionModalWillDismiss") = 1 /\ Count("ionModalDidDismiss") = 1

\* the content-facing name the specification fixes for each lifecycle event
ViewName(type) ==
  CASE type = "ionModalWillPresent" -> "ionViewWillEnter"
    [] type = "ionModalDidPresent"  -> "ionViewDidEnter"
    [] type = "ionModalWillDismiss" -> "ionViewWillDismiss"
    [] type = "ionModalDidDismiss"  -> "ionViewDidDismiss"

\* the number of content-facing events dispatched for the first k events
ForwardedUpTo[k \in Nat] ==
  IF k = 0 THEN 0 ELSE ForwardedUpTo[k - 1] + events[k].fwd

ExpectedAnimation(i) ==
  IF calls[i].kind = "present"
  THEN IF enterAnimation # "undefined" THEN enterAnimation
       ELSE IF mode = "ios" THEN "iosEnter" ELSE "mdEnter"
  ELSE IF leaveAnimation # "undefined" THEN leaveAnimation
       ELSE IF mode = "ios" THEN "iosLeave" ELSE "mdLeave"

AnimationsBy(i) == { k \in DOMAIN animations : animations[k].by = i }

\* C11: with animated true, every call that emitted WillPresent or
\* WillDismiss started exactly one animation, the override when one is set
\* and otherwise the builder of the mode and direction; with animated false
\* no animation is started, every WillPresent is followed at once by the
\* DidPresent of the same call, and while no dismiss() has been made
\* presented is true after it.
C11_AnimationSelection ==
  /\ \A k \in DOMAIN animations :
       /\ animated
       /\ animations[k].builder = ExpectedAnimation(animations[k].by)
       /\ events[animations[k].at].by = animations[k].by
       /\ events[animations[k].at].type \in
            {"ionModalWillPresent", "ionModalWillDismiss"}
  /\ \A k \in DOMAIN events :
       events[k].type \in {"ionModalWillPresent", "ionModalWillDismiss"} =>
         Cardinality(AnimationsBy(events[k].by)) = IF animated THEN 1 ELSE 0
  /\ ~animated =>
       \A k \in DOMAIN events :
         events[k].type = "ionModalWillPresent" =>
           /\ k + 1 \in DOMAIN events
           /\ events[k + 1].type = "ionModalDidPresent"
           /\ events[k + 1].by = events[k].by
           /\ calls[events[k].by].pc = "done"
           /\ DismissCalls = {} => presented

\* In mode md, with an enter override and no leave override, a present() and
\* a dismiss() have completed: the override and mdLeave were run.
C11_Witness ==
  /\ animated /\ mode = "md"
  /\ enterAnimation = "customEnter" /\ leaveAnimation = "undefined"
  /\ Len(animations) = 2
  /\ animations[1].builder = "customEnter"
  /\ animations[2].builder = "mdLeave"
  /\ Count("ionModalDidPresent") = 1
  /\ Count("ionModalDidDismiss") = 1
  /\ \A i \in DOMAIN calls : calls[i].pc = "done"

\* the present() calls past the guard of modal.tsx:160 and not yet returned
PresentsInFlight ==
  { i \in PresentCalls : calls[i].pc \in {"attach", "ready", "anim"} }

\* the dismiss() calls accepted by the guard and not yet returned
DismissesInFlight ==
  { i \in DismissCalls :
      calls[i].pc # "done" /\ calls[i].dismissed # "false" }

\* C12 (the claim as stated): at most one present() and at most one
\* dismiss() are in flight, and no second WillPresent or WillDismiss is
\* emitted.
C12_OneInFlight ==
  /\ Cardinality(PresentsInFlight) <= 1
  /\ Cardinality(DismissesInFlight) <= 1
  /\ Count("ionModalWillPresent") <= 1
  /\ Count("ionModalWillDismiss") <= 1

\* C13: of two dismiss() calls, the first made in state Presented, the
\* second emits nothing, detaches nothing and resolves to false; one
\* WillDismiss and at most one DidDismiss are emitted and detach is called at
\* most once; once both have returned exactly one returned true, one
\* DidDismiss was emitted and detach was called exactly once.
C13_DoubleDismiss ==
  \A i, j \in DismissCalls :
    (i < j /\ calls[i].entryState = "Presented") =>
      /\ calls[j].dismissed = "false"
      /\ ~AnyEventBy(j) /\ ~DetachBy(j)
      /\ Count("ionModalWillDismiss") = 1
      /\ Count("ionModalDidDismiss") <= 1
      /\ Len(detaches) <= 1
      /\ (calls[i].pc = "done" /\ calls[j].pc = "done") =>
           /\ calls[i].result = "true" /\ calls[j].result = "false"
           /\ Count("ionModalDidDismiss") = 1
           /\ Len(detaches) = 1
           /\ detaches[1].by = i

\* Two dismiss() calls have returned, the second made during the leave
\* animation of the first through ionDismiss.
C13_Witness ==
  \E i, j \in DismissCalls :
    /\ i < j
    /\ calls[i].entryState = "Presented"
    /\ calls[j].entryState = "Dismissing" /\ calls[j].via = "ionDismiss"
    /\ calls[i].pc = "done" /\ calls[i].result = "true"
    /\ calls[j].pc = "done" /\ calls[j].result = "false"
    /\ Len(detaches) = 1

\* C14 (the claim as stated): a dismiss() made while a present() is in
\* flight and has not emitted DidPresent does not resolve to false, emits
\* WillDismiss, and on completion has emitted DidDismiss after it.
C14_DismissWhilePresenting ==
  \A i \in DismissCalls :
    calls[i].presentInFlight =>
      /\ calls[i].dismissed # "false"
      /\ \E k \in EventsBy(i, "ionModalWillDismiss") :
           calls[i].pc = "done" =>
             \E m \in EventsBy(i, "ionModalDidDismiss") : m > k

C16_Liveness ==
  /\ \A i \in 1..MaxLiveCalls :
       ( /\ i \in PresentCalls
         /\ calls[i].entryState = "Idle" /\ ~calls[i].entryPresented
         /\ calls[i].container /\ calls[i].comp )
       ~> (Count("ionModalDidPresent") >= 1)
  /\ [][ Count("ionModalDidPresent")' > Count("ionModalDidPresent")
           => presented' ]_vars
  /\ \A i \in 1..MaxLiveCalls :
       ( i \in DismissCalls /\ calls[i].entryState = "Presented" )
       ~> ( /\ i \in DismissCalls
            /\ calls[i].pc = "done" /\ calls[i].result = "true"
            /\ EventsBy(i, "ionModalDidDismiss") # {}
            /\ \E k \in DOMAIN detaches :
                 /\ detaches[k].by = i
                 /\ detaches[k].el # None
                 /\ detaches[k].el \notin mounted )

\* A present() made in state Idle and a dismiss() made in state Presented
\* have both run to completion.
C16_Witness ==
  \E i \in PresentCalls, j \in DismissCalls :
    /\ calls[i].entryState = "Idle" /\ calls[i].pc = "done"
    /\ EventsBy(i, "ionModalDidPresent") # {}
    /\ calls[j].entryState = "Presented"
    /\ calls[j].pc = "done" /\ calls[j].result = "true"
    /\ mounted = {}

InFlight == { i \in DOMAIN calls : calls[i].pc # "done" }

\* C18 (the claim as stated): content is attached at most once, and once a
\* dismiss() has returned true and no call is in flight every handle that was
\* attached has been detached.
C18_NoContentLeak ==
  /\ handles <= 1
  /\ (DismissReturnedTrue /\ InFlight = {}) => mounted = {}

====
